---- MODULE Spec2Model ----
(***************************************************************************)
(* The HTTP transport of the Resend MCP server (transports/http.ts), the   *)
(* session registry it keeps, the stdio transport (transports/stdio.ts),   *)
(* the entry point (index.ts) with its termination-signal handling, and    *)
(* the resolution of the configuration from argv and env (cli/).           *)
(*                                                                         *)
(* Strings that the code inspects character by character (the              *)
(* Authorization header) are sequences of one-character strings.  Session  *)
(* identifiers and registry keys are strings.                              *)
(*                                                                         *)
(* Every `await` of the code is a point where other handlers may run: a    *)
(* handler is one action per stretch of code between two awaits.           *)
(***************************************************************************)
EXTENDS Integers, Sequences, FiniteSets, TLC

VARIABLES
    launch,      \* how runHttp was started: by the entry point, or called directly
    listener,    \* the HTTP listener of app.listen
    sessions,    \* const sessions: Record<string, StreamableHTTPServerTransport>
    transports,  \* every StreamableHTTPServerTransport constructed so far
    minted,      \* the values randomUUID() has returned so far
    shut,        \* the shutdown() task started by each signal
    proc,        \* the process: running, or exited with a code
    last,        \* the latest /mcp request and what the handler did with it
    promise,     \* the promise returned by runHttp or runStdio
    cli,         \* the entry point: argv and env, the resolved config, its position
    stdio,       \* what runStdio has built and connected
    call         \* a tool call: its arguments, the upstream request, its result

vars == <<launch, listener, sessions, transports, minted, shut, proc, last,
          promise, cli, stdio, call>>

----------------------------------------------------------------------------
(* Bounds of the model *)

\* channels constructed in one run (create attempts that pass the 401 check)
MaxTransports == 2

\* termination signals delivered to a process that runs shutdown()
MaxSignals == 1

----------------------------------------------------------------------------
(* Strings as sequences of characters *)

BearerPrefix == <<"B", "e", "a", "r", "e", "r", " ">>

\* String.prototype.startsWith
startsWith(s, p) == Len(s) >= Len(p) /\ SubSeq(s, 1, Len(p)) = p

\* String.prototype.slice(n)
slice(s, n) == SubSeq(s, n + 1, Len(s))

RECURSIVE trimStart(_)
trimStart(s) == IF s # <<>> /\ Head(s) = " " THEN trimStart(Tail(s)) ELSE s

RECURSIVE trimEnd(_)
trimEnd(s) ==
    IF s # <<>> /\ s[Len(s)] = " " THEN trimEnd(SubSeq(s, 1, Len(s) - 1)) ELSE s

\* String.prototype.trim
trim(s) == trimEnd(trimStart(s))

\* an absent header (undefined) and a header with a value
NoHeader == [present |-> FALSE, value |-> <<>>]
Header(v) == [present |-> TRUE, value |-> v]

\* null, the result of extractBearerToken when there is no usable credential
Null == <<>>

\* extractBearerToken that takes what follows the seventh character of the
\* header whatever the scheme is
extractBearerToken_AnyScheme(authorization) ==
    IF ~authorization.present \/ authorization.value = <<>>
    THEN Null
    ELSE trim(slice(authorization.value, Len(BearerPrefix)))

\* extractBearerToken without the trim: a blank token passes as a credential
extractBearerToken_NoTrim(authorization) ==
    IF ~authorization.present \/ authorization.value = <<>>
          \/ ~startsWith(authorization.value, BearerPrefix)
    THEN Null
    ELSE slice(authorization.value, Len(BearerPrefix))

\* extractBearerToken: the credential of an Authorization header, or null
extractBearerToken(authorization) ==
    IF ~authorization.present \/ authorization.value = <<>>
          \/ ~startsWith(authorization.value, BearerPrefix)
    THEN Null
    ELSE trim(slice(authorization.value, Len(BearerPrefix)))

----------------------------------------------------------------------------
(* Command line and environment (cli/parse.ts, cli/resolve.ts) *)

\* longest string drawn for an option or an environment variable
MaxLen == 3

\* every string over the alphabet, up to n characters
Strs(alphabet, n) == UNION {[1..k -> alphabet] : k \in 0..n}

\* a value of minimist's result: undefined, a string (the option was given
\* once), or an array of strings (it was given more than once)
NotGiven == [kind |-> "undefined", value |-> <<>>]
Once(v) == [kind |-> "string", value |-> <<v>>]
Repeated(vs) == [kind |-> "array", value |-> vs]

\* the string of an option given once
StringOf(option) == option.value[1]

\* a variable of process.env: undefined or a string
Unset == [present |-> FALSE, value |-> <<>>]
Set(v) == [present |-> TRUE, value |-> v]

\* a number: NaN or an integer
NaN == [nan |-> TRUE, n |-> 0]
Num(n) == [nan |-> FALSE, n |-> n]

DigitChars == <<"0", "1", "2", "3", "4", "5", "6", "7", "8", "9">>
IsDigit(c) == \E d \in 1..10 : DigitChars[d] = c
DigitValue(c) == (CHOOSE d \in 1..10 : DigitChars[d] = c) - 1

\* the longest prefix of s made of digits
RECURSIVE DigitsPrefix(_)
DigitsPrefix(s) ==
    IF s # <<>> /\ IsDigit(Head(s)) THEN <<Head(s)>> \o DigitsPrefix(Tail(s))
    ELSE <<>>

\* the value of a string of digits
RECURSIVE Decimal(_)
Decimal(d) ==
    IF d = <<>> THEN 0
    ELSE 10 * Decimal(SubSeq(d, 1, Len(d) - 1)) + DigitValue(d[Len(d)])

\* Number.parseInt(s, 10): leading blanks are skipped, a sign is read, then
\* digits as far as they go; what follows the digits is ignored; NaN when
\* there is no digit
parseInt(s) ==
    LET t == trimStart(s)
        signed == t # <<>> /\ Head(t) \in {"+", "-"}
        body == IF signed THEN Tail(t) ELSE t
        digits == DigitsPrefix(body)
    IN  IF digits = <<>> THEN NaN
        ELSE IF signed /\ Head(t) = "-" THEN Num(0 - Decimal(digits))
        ELSE Num(Decimal(digits))

\* DEFAULT_HTTP_PORT of cli/constants.ts
DEFAULT_HTTP_PORT == 3000

\* Number.isInteger(x) && x > 0 && x < 65536
validPort(x) == ~x.nan /\ x.n > 0 /\ x.n < 65536

\* typeof v === 'string' && v.trim() !== '' ? Number.parseInt(v.trim(), 10) : NaN
portOf(isString, v) ==
    IF isString /\ trim(v) # <<>> THEN parseInt(trim(v)) ELSE NaN

\* parsePort that takes MCP_PORT before --port
parsePort_EnvFirst(parsed, env) ==
    LET fromArg == portOf(parsed.port.kind = "string", StringOf(parsed.port))
        fromEnv == portOf(env.MCP_PORT.present, env.MCP_PORT.value)
    IN  IF validPort(fromEnv) THEN fromEnv.n
        ELSE IF validPort(fromArg) THEN fromArg.n
        ELSE DEFAULT_HTTP_PORT

\* parsePort
parsePort(parsed, env) ==
    LET fromArg == portOf(parsed.port.kind = "string", StringOf(parsed.port))
        fromEnv == portOf(env.MCP_PORT.present, env.MCP_PORT.value)
    IN  IF validPort(fromArg) THEN fromArg.n
        ELSE IF validPort(fromEnv) THEN fromEnv.n
        ELSE DEFAULT_HTTP_PORT

\* String.prototype.split(c) for a one-character separator
RECURSIVE split(_, _)
split(s, c) ==
    IF \A i \in 1..Len(s) : s[i] # c THEN <<s>>
    ELSE LET i == CHOOSE i \in 1..Len(s) :
                      s[i] = c /\ \A j \in 1..(i - 1) : s[j] # c
         IN  <<SubSeq(s, 1, i - 1)>> \o split(SubSeq(s, i + 1, Len(s)), c)

\* parseReplierAddresses without the filter(Boolean)
parseReplierAddresses_NoFilter(parsed, env) ==
    LET v == env.REPLY_TO_EMAIL_ADDRESSES IN
    IF parsed.replyTo.kind = "array" THEN parsed.replyTo.value
    ELSE IF parsed.replyTo.kind = "string" THEN <<StringOf(parsed.replyTo)>>
    ELSE IF v.present /\ trim(v.value) # <<>>
        THEN LET parts == split(v.value, ",") IN
             [i \in 1..Len(parts) |-> trim(parts[i])]
    ELSE <<>>

\* parseReplierAddresses
parseReplierAddresses(parsed, env) ==
    LET v == env.REPLY_TO_EMAIL_ADDRESSES IN
    IF parsed.replyTo.kind = "array" THEN parsed.replyTo.value
    ELSE IF parsed.replyTo.kind = "string" THEN <<StringOf(parsed.replyTo)>>
    ELSE IF v.present /\ trim(v.value) # <<>>
        THEN LET parts == split(v.value, ",") IN
             SelectSeq([i \in 1..Len(parts) |-> trim(parts[i])],
                       LAMBDA a : a # <<>>)
    ELSE <<>>

\* the result of resolveConfig when it fails, and its config when it succeeds
NoConfig ==
    [ transport |-> "none", apiKey |-> Unset, senderEmailAddress |-> <<>>,
      replierEmailAddresses |-> <<>>, port |-> 0 ]

\* (typeof parsed.key === 'string' ? parsed.key : null) ?? env.RESEND_API_KEY ?? null
\* with || in place of ??: an empty --key falls through to the environment
apiKeyOf_Or(parsed, env) ==
    IF parsed.key.kind = "string" /\ StringOf(parsed.key) # <<>>
    THEN Set(StringOf(parsed.key))
    ELSE env.RESEND_API_KEY

\* (typeof parsed.key === 'string' ? parsed.key : null) ?? env.RESEND_API_KEY ?? null
apiKeyOf(parsed, env) ==
    IF parsed.key.kind = "string" THEN Set(StringOf(parsed.key))
    ELSE env.RESEND_API_KEY

\* (typeof parsed.sender === 'string' ? parsed.sender : null)
\*    ?? (typeof env.SENDER_EMAIL_ADDRESS === 'string'
\*           ? env.SENDER_EMAIL_ADDRESS.trim() || undefined : undefined),
\* and then senderEmailAddress ?? ''
senderOf(parsed, env) ==
    IF parsed.sender.kind = "string" THEN StringOf(parsed.sender)
    ELSE IF env.SENDER_EMAIL_ADDRESS.present
        THEN trim(env.SENDER_EMAIL_ADDRESS.value)
    ELSE <<>>

\* resolveConfig that asks for an API key in every mode
resolveConfig_KeyAlways(parsed, env) ==
    LET apiKey == apiKeyOf(parsed, env)
        http == parsed.http
    IN  IF ~apiKey.present \/ trim(apiKey.value) = <<>>
        THEN [ ok |-> FALSE,
               error |-> "No API key. Set RESEND_API_KEY or use --key=<your-resend-api-key>",
               config |-> NoConfig ]
        ELSE [ ok |-> TRUE,
               error |-> "",
               config |->
                 [ transport |-> IF http THEN "http" ELSE "stdio",
                   apiKey |-> Set(trim(apiKey.value)),
                   senderEmailAddress |-> senderOf(parsed, env),
                   replierEmailAddresses |-> parseReplierAddresses(parsed, env),
                   port |-> parsePort(parsed, env) ] ]

\* resolveConfig: stdio needs an API key at startup, HTTP does not
resolveConfig(parsed, env) ==
    LET apiKey == apiKeyOf(parsed, env)
        http == parsed.http
    IN  IF ~http /\ (~apiKey.present \/ apiKey.value = <<>>
                        \/ trim(apiKey.value) = <<>>)
        THEN [ ok |-> FALSE,
               error |-> "No API key. Set RESEND_API_KEY or use --key=<your-resend-api-key>",
               config |-> NoConfig ]
        ELSE [ ok |-> TRUE,
               error |-> "",
               config |->
                 [ transport |-> IF http THEN "http" ELSE "stdio",
                   apiKey |-> IF apiKey.present THEN Set(trim(apiKey.value))
                              ELSE Unset,
                   senderEmailAddress |-> senderOf(parsed, env),
                   replierEmailAddresses |-> parseReplierAddresses(parsed, env),
                   port |-> parsePort(parsed, env) ] ]

----------------------------------------------------------------------------
(* Tools that send (tools/emails.ts, tools/broadcasts.ts) *)

\* attachments of one send-email call, and emails of one batch
MaxAttachments == 1
MaxBatch == 2

\* every sequence over the set, up to n elements
SeqsUpTo(S, n) == UNION {[1..k -> S] : k \in 0..n}

\* JavaScript truthiness of a string | undefined
given(v) == v.present /\ v.value # <<>>

\* z.email(): one @ with something before and after it, and no blank
isEmail(str) ==
    /\ Cardinality({i \in 1..Len(str) : str[i] = "@"}) = 1
    /\ str[1] # "@" /\ str[Len(str)] # "@"
    /\ \A i \in 1..Len(str) : str[i] # " "

\* the from key of the input schema of send-email and create-broadcast:
\*   ...(!senderEmailAddress ? { from: z.email().nonempty() } : {})
\* a schema that always has an optional from
fromInSchema_Always(sender) == TRUE
fromInSchema(sender) == ~given(sender)

\* what the handler gets for `from` after the schema has parsed the
\* arguments: a key the schema does not have is stripped
parsedFrom(sender, from) == IF fromInSchema(sender) THEN from ELSE Unset

\* the arguments pass the schema of send-email / create-broadcast
validSingle(sender, args) ==
    fromInSchema(sender) =>
        args.from.present /\ args.from.value # <<>> /\ isEmail(args.from.value)

\* the arguments pass the schema of send-batch-emails: from is
\* z.email().optional() in every item, and there is at least one item
validBatch(args) ==
    /\ Len(args.emails) >= 1
    /\ \A i \in 1..Len(args.emails) :
          args.emails[i].from.present => isEmail(args.emails[i].from.value)

\* from ?? senderEmailAddress
orSender(from, sender) == IF from.present THEN from ELSE sender

\* what fs.readFile resolves with, and Buffer.from(content, 'base64')
FileBytes(path) == <<"file">> \o path
Base64Bytes(content) == <<"base64">> \o content

\* one attachment built with url before filePath
attachment_UrlFirst(att) ==
    IF given(att.url)
        THEN [content |-> Unset, path |-> Set(att.url.value)]
    ELSE IF given(att.filePath)
        THEN [content |-> Set(FileBytes(att.filePath.value)), path |-> Unset]
    ELSE IF given(att.content)
        THEN [content |-> Set(Base64Bytes(att.content.value)), path |-> Unset]
    ELSE [content |-> Unset, path |-> Unset]

\* one attachment of the upstream request: filePath, else url, else content
attachment(att) ==
    IF given(att.filePath)
        THEN [content |-> Set(FileBytes(att.filePath.value)), path |-> Unset]
    ELSE IF given(att.url)
        THEN [content |-> Unset, path |-> Set(att.url.value)]
    ELSE IF given(att.content)
        THEN [content |-> Set(Base64Bytes(att.content.value)), path |-> Unset]
    ELSE [content |-> Unset, path |-> Unset]

\* the handler reads a file for some attachment
readsFile(atts) == \E i \in 1..Len(atts) : given(atts[i].filePath)

NoUpstreamRequest == [from |-> Unset, attachments |-> <<>>, emails |-> <<>>]
NoError == [text |-> "", to |-> ""]

\* what a handler does up to its upstream call: it throws, or it has the
\* request it will send
Throw(text, to) ==
    [threw |-> TRUE, error |-> [text |-> text, to |-> to],
     request |-> NoUpstreamRequest]
Send(request) == [threw |-> FALSE, error |-> NoError, request |-> request]

\* the handlers of send-email and create-broadcast, up to the upstream call
\* (create-broadcast has no attachments)
sendSingle(sender, from, atts, readFile) ==
    LET fromEmailAddress == orSender(from, sender) IN
    IF ~fromEmailAddress.present
        THEN Throw("from argument must be provided.", "")
    ELSE IF readsFile(atts) /\ readFile = "rejects"
        THEN Throw("readFile", "")
    ELSE Send([ from |-> fromEmailAddress,
                attachments |-> [i \in 1..Len(atts) |-> attachment(atts[i])],
                emails |-> <<>> ])

\* the first email of the batch that has no from address, or 0
FirstWithoutFrom(sender, emails) ==
    IF \A i \in 1..Len(emails) : orSender(emails[i].from, sender).present THEN 0
    ELSE CHOOSE i \in 1..Len(emails) :
            /\ ~orSender(emails[i].from, sender).present
            /\ \A j \in 1..(i - 1) : orSender(emails[j].from, sender).present

\* the handler of send-batch-emails, up to resend.batch.send
sendBatch(sender, emails) ==
    LET bad == FirstWithoutFrom(sender, emails) IN
    IF bad # 0
        THEN Throw("from address must be provided for email to", emails[bad].to)
    ELSE Send([ from |-> Unset,
                attachments |-> <<>>,
                emails |-> [i \in 1..Len(emails) |->
                              [ to |-> emails[i].to,
                                from |-> orSender(emails[i].from, sender) ]] ])

\* no tool call
NoCall ==
    [ pc |-> "none", tool |-> "none", sender |-> Unset,
      args |-> [from |-> Unset, attachments |-> <<>>, emails |-> <<>>],
      from |-> Unset, sent |-> FALSE, request |-> NoUpstreamRequest,
      error |-> NoError, result |-> "none" ]

\* a tools/call message has arrived for a server built with this sender
NewCall(tool, sender, args) ==
    [NoCall EXCEPT !.pc = "received", !.tool = tool, !.sender = sender,
                   !.args = args]

----------------------------------------------------------------------------
(* Requests *)

\* randomUUID(): the n-th identifier it returns.  Identifiers are minted in
\* this order, so Object.keys(sessions) lists them in increasing n.
Uuid(n) == "uuid-" \o ToString(n)

\* the mcp-session-id header: absent (undefined) or a string
NoSid == [present |-> FALSE, value |-> ""]
Sid(v) == [present |-> TRUE, value |-> v]

\* names every object inherits from Object.prototype; sessions is a plain {}
ObjectPrototypeKeys == {"constructor", "toString", "valueOf", "hasOwnProperty"}

SidHeaders ==
    {NoSid, Sid(""), Sid("constructor")}
        \cup {Sid(Uuid(n)) : n \in 1..(MaxTransports + 1)}

\* POST, and DELETE for every other method (GET is told apart from POST in
\* the same way; DELETE also ends the session)
Methods == {"POST", "DELETE"}

\* req.body after express.json(): an initialize request or another message
Bodies == {"initialize", "tools/call"}

AuthHeaders ==
    { NoHeader,
      Header(BearerPrefix \o <<"a">>),
      Header(BearerPrefix \o <<"b">>),
      Header(BearerPrefix \o <<" ">>),
      Header(<<"B", "a", "s", "i", "c", " ", "a">>) }

\* the Authorization header of a request that names a session: none, or a
\* well-formed credential
SessionAuthHeaders ==
    { NoHeader,
      Header(BearerPrefix \o <<"a">>),
      Header(BearerPrefix \o <<"b">>) }

\* isInitializeRequest of the SDK
isInitializeRequest(body) == body = "initialize"

\* JavaScript truthiness of a string | undefined
truthy(h) == h.present /\ h.value # ""

\* sessions[sessionId]: an own entry, a member inherited from
\* Object.prototype, or undefined
Undefined == [kind |-> "undefined", t |-> 0]
lookup(reg, key) ==
    IF key \in DOMAIN reg THEN [kind |-> "transport", t |-> reg[key]]
    ELSE IF key \in ObjectPrototypeKeys THEN [kind |-> "inherited", t |-> 0]
    ELSE Undefined

\* the chain with a create branch that does not look at the payload
branch_AnyPost(reg, sessionId, method, body) ==
    IF truthy(sessionId) /\ lookup(reg, sessionId.value) # Undefined
        THEN "continue"
    ELSE IF ~truthy(sessionId) /\ method = "POST"
        THEN "create"
    ELSE IF truthy(sessionId) /\ lookup(reg, sessionId.value) = Undefined
        THEN "notfound"
    ELSE "badrequest"

\* the chain with the create branch tested before the session identifier
branch_CreateFirst(reg, sessionId, method, body) ==
    IF method = "POST" /\ isInitializeRequest(body)
        THEN "create"
    ELSE IF truthy(sessionId) /\ lookup(reg, sessionId.value) # Undefined
        THEN "continue"
    ELSE IF truthy(sessionId) /\ lookup(reg, sessionId.value) = Undefined
        THEN "notfound"
    ELSE "badrequest"

\* the if / else-if chain of the /mcp handler
branch(reg, sessionId, method, body) ==
    IF truthy(sessionId) /\ lookup(reg, sessionId.value) # Undefined
        THEN "continue"
    ELSE IF ~truthy(sessionId) /\ method = "POST" /\ isInitializeRequest(body)
        THEN "create"
    ELSE IF truthy(sessionId) /\ lookup(reg, sessionId.value) = Undefined
        THEN "notfound"
    ELSE "badrequest"

\* the response written by sendJsonRpcError
sendJsonRpcError(statusCode, message) ==
    [status |-> statusCode, code |-> -32000, message |-> message]

\* the response written inline by the 404 branch
sessionNotFound == [status |-> 404, code |-> -32001, message |-> "Session not found"]

\* no response written by this handler: the channel owns the response
NoResponse == [status |-> 0, code |-> 0, message |-> ""]

\* the handler threw: Express answers 500
InternalError == [status |-> 500, code |-> 0, message |-> "Internal Server Error"]

----------------------------------------------------------------------------
(* Sessions, client handles and channels *)

EmptyRegistry == [k \in {} |-> 0]

\* new Resend(apiKey): the client handle, known by the credential it carries
Resend(apiKey) == apiKey

\* createMcpServer(resend, options): every tool of the server is closed over
\* the one handle it was given
createMcpServer(resend) == resend

\* a generator that returns the same identifier every time
sessionIdGenerator_Constant(used) == Uuid(1)

\* sessionIdGenerator: () => randomUUID(), a value never returned before
sessionIdGenerator(used) == Uuid(Cardinality(used) + 1)

\* a create path that binds every server to one handle shared by all sessions
NewTransport_SharedHandle(apiKey) ==
    [ apiKey    |-> apiKey,
      sessionId |-> "",
      onclose   |-> TRUE,
      server    |-> createMcpServer(Resend(<<"a">>)),
      pc        |-> "connecting" ]

\* a create path that never installs the close callback
NewTransport_NoOnclose(apiKey) ==
    [ apiKey    |-> apiKey,
      sessionId |-> "",
      onclose   |-> FALSE,
      server    |-> createMcpServer(Resend(apiKey)),
      pc        |-> "connecting" ]

\* new StreamableHTTPServerTransport(...), transport.onclose = ... and
\* createMcpServer, as the create path leaves them before server.connect
NewTransport(apiKey) ==
    [ apiKey    |-> apiKey,
      sessionId |-> "",                               \* undefined until minted
      onclose   |-> TRUE,
      server    |-> createMcpServer(Resend(apiKey)),
      pc        |-> "connecting" ]

\* a continuation that builds a handle from the credential of the request
clientHandle_FromRequest(tr, authorization) ==
    IF extractBearerToken(authorization) # Null
    THEN createMcpServer(Resend(extractBearerToken(authorization)))
    ELSE tr.server

\* the handle a continuation request runs with: transport.handleRequest
\* reaches the server that was connected to the channel on the create path
clientHandle(tr, authorization) == tr.server

\* a callback that starts the registry afresh with the new session
onsessioninitialized_Replace(reg, sid, t) == [k \in {sid} |-> t]

\* onsessioninitialized: (sid) => { sessions[sid] = transport }
onsessioninitialized(reg, sid, t) ==
    [k \in DOMAIN reg \cup {sid} |-> IF k = sid THEN t ELSE reg[k]]

\* delete sessions[sid]
delete(reg, sid) == [k \in DOMAIN reg \ {sid} |-> reg[k]]

\* a close callback that empties the registry
onclose_DropAll(reg, tr) == EmptyRegistry

\* a close callback that leaves the registry alone
onclose_Keep(reg, tr) == reg

\* transport.onclose: const sid = transport.sessionId;
\*                    if (sid && sessions[sid]) delete sessions[sid]
onclose(reg, tr) ==
    IF tr.sessionId # "" /\ lookup(reg, tr.sessionId) # Undefined
    THEN delete(reg, tr.sessionId)
    ELSE reg

\* what a channel that closes does to the registry: it calls its onclose
closed(reg, tr) == IF tr.onclose THEN onclose(reg, tr) ELSE reg

\* Object.keys(sessions): the own keys in insertion order
RECURSIVE KeysFrom(_, _, _)
KeysFrom(reg, n, max) ==
    IF n > max THEN <<>>
    ELSE (IF Uuid(n) \in DOMAIN reg THEN <<Uuid(n)>> ELSE <<>>)
            \o KeysFrom(reg, n + 1, max)

ObjectKeys(reg) == KeysFrom(reg, 1, MaxTransports)

NoRequest ==
    [ path |-> "/mcp", branch |-> "none", sid |-> NoSid, method |-> "POST",
      body |-> "tools/call", auth |-> NoHeader, response |-> NoResponse,
      transport |-> 0, handle |-> Null, upstream |-> "none" ]

\* a request to /mcp and what the handler did with it
Request(br, sid, method, body, auth, response, t, handle) ==
    [ path |-> "/mcp", branch |-> br, sid |-> sid, method |-> method,
      body |-> body, auth |-> auth, response |-> response, transport |-> t,
      handle |-> handle, upstream |-> "none" ]

\* the routes runHttp registers on the Express app: app.all('/mcp', ...)
Routes == {"/mcp"}

\* other paths a client may ask for
OtherPaths == {"/health"}

\* Express finds no route for the path: its final handler answers 404
NotFound == [status |-> 404, code |-> 0, message |-> "Not Found"]

\* how resend.emails.send ends: it resolves with data, resolves with an
\* error, or rejects
Upstream == {"data", "error", "throws"}

\* a send-email handler that reports success whatever the upstream answered
sendEmail_Swallow(upstream) == "content"

\* the send-email handler after `await resend.emails.send(emailRequest)`:
\* it returns a content result, or throws when the upstream call rejected or
\* returned an error
sendEmail(upstream) == IF upstream = "data" THEN "content" ELSE "throw"

\* the response of a tools/call request: the protocol server turns a thrown
\* error into a result flagged isError, inside a 200 response
toolResponse(outcome) ==
    [ status |-> 200, code |-> 0,
      message |-> IF outcome = "throw" THEN "isError" ELSE "result" ]

\* a tools/call request that reaches the handlers: a POST of a message
isToolCall(method, body) == method = "POST" /\ body = "tools/call"

\* the promise runHttp and runStdio return, and how it settles
NewPromise_Resolved == "resolved"
NewPromise == "pending"
resolve(p) == IF p = "pending" THEN "resolved" ELSE p
reject(p) == IF p = "pending" THEN "rejected" ELSE p

\* a fatal handler that logs and returns
onFatal_LogOnly(p) == p

\* onFatal: console.error(...); process.exit(1)
onFatal(p) == "exit1"

\* argv and env of a process started with --http and nothing else
ArgvHttp ==
    [ key |-> NotGiven, http |-> TRUE, port |-> NotGiven, sender |-> NotGiven,
      replyTo |-> NotGiven, help |-> FALSE ]
NoEnv ==
    [ RESEND_API_KEY |-> Unset, MCP_PORT |-> Unset,
      SENDER_EMAIL_ADDRESS |-> Unset, REPLY_TO_EMAIL_ADDRESSES |-> Unset ]

\* the entry point before it has run, and once it has started a transport
CliMain(parsed, env) ==
    [ pc |-> "main", parsed |-> parsed, env |-> env, config |-> NoConfig,
      error |-> "", printed |-> "", resend |-> Null ]
CliStarted(parsed, env, config, resend) ==
    [ pc |-> "started", parsed |-> parsed, env |-> env, config |-> config,
      error |-> "", printed |-> "", resend |-> resend ]

\* runStdio has not been called
NoStdio == [servers |-> <<>>, connects |-> 0, pc |-> "idle", handled |-> "none"]

Serving == proc = "running" /\ listener = "listening"

----------------------------------------------------------------------------
(* Start of the listener *)

Init ==
    /\ launch \in {"entry", "direct"}
    /\ listener = "binding"
    /\ sessions = EmptyRegistry
    /\ transports = <<>>
    /\ minted = {}
    /\ shut = <<>>
    /\ proc = "running"
    /\ last = NoRequest
    /\ promise = NewPromise
    /\ cli = CliStarted(ArgvHttp, NoEnv, resolveConfig(ArgvHttp, NoEnv).config, Null)
    /\ stdio = NoStdio
    /\ call = NoCall

\* app.listen calls back: the promise of runHttp resolves
Listen ==
    /\ proc = "running" /\ listener = "binding"
    /\ listener' = "listening"
    /\ promise' = resolve(promise)
    /\ UNCHANGED <<launch, call, cli, stdio, sessions, transports, minted, shut, proc, last>>

\* the listener emits 'error' first: the promise rejects; under the entry
\* point onFatal logs and exits with code 1
ListenError ==
    /\ proc = "running" /\ listener = "binding"
    /\ listener' = "error"
    /\ promise' = reject(promise)
    /\ proc' = IF launch = "entry" THEN onFatal(proc) ELSE proc
    /\ UNCHANGED <<launch, call, cli, stdio, sessions, transports, minted, shut, last>>

----------------------------------------------------------------------------
(* The /mcp handler *)

\* 401 branch: an initialize request without a usable bearer credential
Reject401 ==
    /\ Serving
    /\ \E sid \in SidHeaders, method \in Methods, body \in Bodies,
          auth \in AuthHeaders :
        /\ branch(sessions, sid, method, body) = "create"
        /\ extractBearerToken(auth) = Null
        /\ last' = Request("create", sid, method, body, auth,
                sendJsonRpcError(401,
                    "Unauthorized: provide a Resend API key via Authorization: Bearer <key>"),
                0, Null)
    /\ UNCHANGED <<launch, call, promise, cli, stdio, listener, sessions, transports, minted, shut, proc>>

\* create path up to `await server.connect(transport)`
CreateBegin ==
    /\ Serving
    /\ Len(transports) < MaxTransports
    /\ \E sid \in SidHeaders, method \in Methods, body \in Bodies,
          auth \in AuthHeaders :
        /\ branch(sessions, sid, method, body) = "create"
        /\ extractBearerToken(auth) # Null
        /\ transports' = Append(transports, NewTransport(extractBearerToken(auth)))
        /\ last' = Request("create", sid, method, body, auth, NoResponse,
                Len(transports) + 1, Null)
    /\ UNCHANGED <<launch, call, promise, cli, stdio, listener, sessions, minted, shut, proc>>

\* create path after the await: server.connect rejected (the handler fails),
\* or transport.handleRequest runs.  The channel either refuses the request
\* before a session exists, or mints the identifier and calls
\* onsessioninitialized (the channel is now initialized), and then goes on
\* handling the initialize request.
CreateResume(t) ==
    /\ proc = "running"
    /\ transports[t].pc = "connecting"
    /\ \E outcome \in {"connect rejected", "request refused", "initialized"} :
        IF outcome = "initialized"
        THEN LET sid == sessionIdGenerator(minted) IN
             /\ minted' = minted \cup {sid}
             /\ transports' = [transports EXCEPT ![t].sessionId = sid,
                                                 ![t].pc = "initialized"]
             /\ sessions' = onsessioninitialized(sessions, sid, t)
        ELSE /\ transports' = [transports EXCEPT ![t].pc = "failed"]
             /\ UNCHANGED <<minted, sessions>>
    /\ UNCHANGED <<launch, call, promise, cli, stdio, listener, shut, proc, last>>

\* handleRequest of the initialize request fails after the callback ran (the
\* client is gone, the response cannot be written): line 133 rejects and the
\* handler has no cleanup
InitializeFail(t) ==
    /\ proc = "running"
    /\ transports[t].pc = "initialized"
    /\ transports' = [transports EXCEPT ![t].pc = "failed"]
    /\ UNCHANGED <<launch, call, promise, cli, stdio, listener, sessions, minted, shut, proc, last>>

\* transport.close() of the SDK: the channel ends its streams and calls the
\* onclose callback it was given
close(t) ==
    /\ transports' = [transports EXCEPT ![t].pc = "closed"]
    /\ sessions' = closed(sessions, transports[t])

\* continuation path: the request goes to the channel found in the registry,
\* whatever Authorization header it carries.
\* A tools/call message runs a tool with the session's handle.
\* A DELETE makes the channel close itself.  A value inherited from
\* Object.prototype has no handleRequest: the handler throws.
Continuation ==
    /\ Serving
    /\ \E sid \in SidHeaders, method \in Methods, body \in Bodies,
          auth \in SessionAuthHeaders :
        /\ branch(sessions, sid, method, body) = "continue"
        /\ LET found == lookup(sessions, sid.value) IN
           IF found.kind = "transport"
           THEN /\ IF isToolCall(method, body)
                   THEN \E upstream \in Upstream :
                          last' = [Request("continue", sid, method, body, auth,
                                      toolResponse(sendEmail(upstream)), found.t,
                                      clientHandle(transports[found.t], auth))
                                   EXCEPT !.upstream = upstream]
                   ELSE last' = Request("continue", sid, method, body, auth,
                                    NoResponse, found.t,
                                    clientHandle(transports[found.t], auth))
                /\ IF method = "DELETE" THEN close(found.t)
                   ELSE UNCHANGED <<sessions, transports>>
           ELSE /\ last' = Request("continue", sid, method, body, auth,
                        InternalError, 0, Null)
                /\ UNCHANGED <<sessions, transports>>
    /\ UNCHANGED <<launch, call, promise, cli, stdio, listener, minted, shut, proc>>

\* 404 branch
Reject404 ==
    /\ Serving
    /\ \E sid \in SidHeaders, method \in Methods, body \in Bodies :
        /\ branch(sessions, sid, method, body) = "notfound"
        /\ last' = Request("notfound", sid, method, body, NoHeader,
                sessionNotFound, 0, Null)
    /\ UNCHANGED <<launch, call, promise, cli, stdio, listener, sessions, transports, minted, shut, proc>>

\* 400 branch
Reject400 ==
    /\ Serving
    /\ \E sid \in SidHeaders, method \in Methods, body \in Bodies :
        /\ branch(sessions, sid, method, body) = "badrequest"
        /\ last' = Request("badrequest", sid, method, body, NoHeader,
                sendJsonRpcError(400, "Bad Request: No valid session ID provided"),
                0, Null)
    /\ UNCHANGED <<launch, call, promise, cli, stdio, listener, sessions, transports, minted, shut, proc>>

\* a request for a path other than /mcp: no route of the app matches it
Unrouted ==
    /\ Serving
    /\ \E path \in OtherPaths \ Routes :
        last' = [Request("unrouted", NoSid, "GET", "none", NoHeader, NotFound,
                    0, Null)
                 EXCEPT !.path = path]
    /\ UNCHANGED <<launch, call, promise, cli, stdio, listener, sessions, transports,
                   minted, shut, proc>>

\* the channel reports closure for a reason of its own (the client went away,
\* the server ended it); closing a closed channel calls onclose again
ChannelClose(t) ==
    /\ proc = "running"
    /\ transports[t].pc \in {"initialized", "open", "failed", "closed"}
    /\ close(t)
    /\ UNCHANGED <<launch, call, promise, cli, stdio, listener, minted, shut, proc, last>>

----------------------------------------------------------------------------
(* Termination signals *)

Signals == {"SIGINT", "SIGTERM"}

\* how sessions[sid].close() ends: the channel closes and the promise
\* resolves, the call throws or the promise rejects, or the promise never
\* settles
CloseOutcomes == {"closed", "throws", "never"}

\* `await sessions[sid].close()` inside try / catch: it resumes when the
\* promise settles, with a value or with an error, and only then
awaited(outcome) == IF outcome = "never" THEN "pending" ELSE "settles"

\* the first key at or after position i whose sessions[sid] is still defined:
\* for the others sessions[sid].close() throws a TypeError inside the try,
\* delete is a no-op and the loop goes on without awaiting
RECURSIVE NextLive(_, _, _)
NextLive(reg, keys, i) ==
    IF i > Len(keys) \/ keys[i] \in DOMAIN reg THEN i
    ELSE NextLive(reg, keys, i + 1)

\* shutdown() from position i of its key list, up to its next await or its end:
\*   for (const sid of keys) { try { await sessions[sid].close() } catch {}
\*                             delete sessions[sid] }
\*   server.close(); process.exit(0)
\* close() either works (the channel calls onclose), throws (caught), or
\* returns a promise that never settles: the await then never resumes.
shutdownFrom(reg, task, i) ==
    LET j == NextLive(reg, task.keys, i) IN
    IF j > Len(task.keys)
    THEN /\ sessions' = reg
         /\ listener' = "closed"
         /\ proc' = "exit0"
         /\ UNCHANGED <<transports, shut>>
    ELSE /\ \E outcome \in CloseOutcomes :
            /\ IF outcome = "closed"
               THEN /\ transports' = [transports EXCEPT ![reg[task.keys[j]]].pc = "closed"]
                    /\ sessions' = closed(reg, transports[reg[task.keys[j]]])
               ELSE /\ sessions' = reg
                    /\ UNCHANGED transports
            /\ shut' = [k \in 1..task.id |->
                          IF k = task.id
                          THEN [task EXCEPT !.i = j, !.await = awaited(outcome)]
                          ELSE shut[k]]
         /\ UNCHANGED <<listener, proc>>

\* a signal under the entry point: its own listener, registered before
\* runHttp registers shutdown, runs first and process.exit(0) ends the process
SignalEntry ==
    /\ proc = "running"
    /\ launch = "entry"
    /\ cli.pc = "started"
    /\ \E sig \in Signals : proc' = "exit0"
    /\ UNCHANGED <<launch, call, promise, cli, stdio, listener, sessions, transports, minted, shut, last>>

\* a signal when runHttp was called directly: shutdown() starts
SignalDirect ==
    /\ proc = "running"
    /\ launch = "direct"
    /\ Len(shut) < MaxSignals
    /\ \E sig \in Signals :
        shutdownFrom(sessions,
            [id |-> Len(shut) + 1, sig |-> sig, keys |-> ObjectKeys(sessions),
             i |-> 0, await |-> "settles"],
            1)
    /\ UNCHANGED <<launch, call, promise, cli, stdio, minted, last>>

\* shutdown() resumes after `await sessions[sid].close()`: delete sessions[sid]
\* and on to the next key
DrainResume(k) ==
    /\ proc = "running"
    /\ shut[k].await = "settles"
    /\ shutdownFrom(delete(sessions, shut[k].keys[shut[k].i]), shut[k], shut[k].i + 1)
    /\ UNCHANGED <<launch, call, promise, cli, stdio, minted, last>>

----------------------------------------------------------------------------
(* The entry point (index.ts) and the stdio transport (transports/stdio.ts) *)

\* runStdio that builds and connects a server twice
runStdio_Twice(resend) ==
    [ servers  |-> <<createMcpServer(resend), createMcpServer(resend)>>,
      connects |-> 2,
      pc       |-> "connecting",
      handled  |-> "none" ]

\* runStdio up to `await server.connect(transport)`: one server built from
\* the handle, one StdioServerTransport, one connect
runStdio(resend) ==
    [ servers  |-> <<createMcpServer(resend)>>,
      connects |-> 1,
      pc       |-> "connecting",
      handled  |-> "none" ]

\* the client handle the entry point builds at startup: none for HTTP,
\* new Resend(config.apiKey) for stdio
startupResend(config) ==
    IF config.transport = "http" THEN Null ELSE Resend(config.apiKey.value)

\* resolveConfigOrExit that validates the configuration before it looks
\* at --help
resolveConfigOrExit_ValidateFirst(parsed, env) ==
    LET result == resolveConfig(parsed, env) IN
    IF ~result.ok
    THEN [ exit |-> "exit1", printed |-> "error", error |-> result.error,
           config |-> NoConfig ]
    ELSE IF parsed.help
    THEN [ exit |-> "exit0", printed |-> "help", error |-> "",
           config |-> NoConfig ]
    ELSE [ exit |-> "none", printed |-> "", error |-> "",
           config |-> result.config ]

\* resolveConfigOrExit: with --help (or -h, its alias) printHelp() and
\* process.exit(0); when resolveConfig fails console.error('Error:', error)
\* and process.exit(1); otherwise the config is returned
resolveConfigOrExit(parsed, env) ==
    LET result == resolveConfig(parsed, env) IN
    IF parsed.help
    THEN [ exit |-> "exit0", printed |-> "help", error |-> "",
           config |-> NoConfig ]
    ELSE IF ~result.ok
    THEN [ exit |-> "exit1", printed |-> "error", error |-> result.error,
           config |-> NoConfig ]
    ELSE [ exit |-> "none", printed |-> "", error |-> "",
           config |-> result.config ]

\* index.ts from its first line to the await inside runHttp or runStdio:
\* parseArgs, resolveConfigOrExit (help: exit 0; no config: exit 1), the
\* signal listeners, and the start of the transport the config names
Main ==
    /\ proc = "running" /\ cli.pc = "main"
    /\ LET result == resolveConfigOrExit(cli.parsed, cli.env) IN
       IF result.exit # "none"
       THEN /\ proc' = result.exit
            /\ cli' = [cli EXCEPT !.pc = "exited", !.error = result.error,
                                  !.printed = result.printed]
            /\ UNCHANGED <<listener, promise, stdio>>
       ELSE /\ cli' = CliStarted(cli.parsed, cli.env, result.config,
                          startupResend(result.config))
            /\ promise' = NewPromise
            /\ IF result.config.transport = "http"
               THEN /\ listener' = "binding"
                    /\ UNCHANGED stdio
               ELSE /\ stdio' = runStdio(startupResend(result.config))
                    /\ UNCHANGED listener
            /\ UNCHANGED proc
    /\ UNCHANGED <<launch, call, sessions, transports, minted, shut, last>>

\* server.connect resolves: runStdio logs and its promise resolves
StdioConnected ==
    /\ proc = "running" /\ stdio.pc = "connecting"
    /\ stdio' = [stdio EXCEPT !.pc = "connected"]
    /\ promise' = resolve(promise)
    /\ UNCHANGED <<launch, call, cli, listener, sessions, transports, minted, shut,
                   proc, last>>

\* server.connect rejects: runStdio rejects with that error and onFatal runs
StdioConnectFail ==
    /\ proc = "running" /\ stdio.pc = "connecting"
    /\ stdio' = [stdio EXCEPT !.pc = "failed"]
    /\ promise' = reject(promise)
    /\ proc' = onFatal(proc)
    /\ UNCHANGED <<launch, call, cli, listener, sessions, transports, minted, shut,
                   last>>

\* a message on standard input: the one server handles it
StdioRequest ==
    /\ proc = "running" /\ stdio.pc = "connected"
    /\ \E body \in Bodies : stdio' = [stdio EXCEPT !.handled = body]
    /\ UNCHANGED <<launch, call, promise, cli, listener, sessions, transports, minted,
                   shut, proc, last>>

\* characters of the strings drawn for --key, RESEND_API_KEY, --port,
\* MCP_PORT and REPLY_TO_EMAIL_ADDRESSES
KeyChars == {" ", "k"}
EnvKeyChars == {" ", "e"}
PortChars == {"0", "8", " ", "x", "-"}
ReplyChars == {"a", ",", " "}

\* ports at the edges of the range, with a sign, a fraction, blanks around
PortEdges ==
    { <<"6", "5", "5", "3", "5">>, <<"6", "5", "5", "3", "6">>,
      <<"9", "9", "9", "9", "9">>, <<"+", "8", "0">>, <<"1", "2", ".", "5">>,
      <<" ", "9", "0", "0", "0", " ">>, <<"0">>, <<>>, <<"x">> }

ArgvStdio ==
    [ key |-> Once(<<"k">>), http |-> FALSE, port |-> NotGiven,
      sender |-> NotGiven, replyTo |-> NotGiven, help |-> FALSE ]

OptionValues(strings) ==
    {NotGiven, Repeated(<<<<"8">>, <<"8">>>>)} \cup {Once(v) : v \in strings}
EnvValues(strings) == {Unset} \cup {Set(v) : v \in strings}

\* the API key: --key against RESEND_API_KEY, in both modes
KeyInputs ==
    { << [ArgvStdio EXCEPT !.key = k, !.http = h],
         [NoEnv EXCEPT !.RESEND_API_KEY = e] >> :
        k \in OptionValues(Strs(KeyChars, MaxLen)),
        e \in EnvValues(Strs(EnvKeyChars, MaxLen)),
        h \in BOOLEAN }

\* the port: every --port against the edges of MCP_PORT, and the reverse
PortInputs ==
    { << [ArgvStdio EXCEPT !.port = a, !.http = h],
         [NoEnv EXCEPT !.MCP_PORT = e] >> :
        a \in OptionValues(Strs(PortChars, MaxLen) \cup PortEdges),
        e \in EnvValues(PortEdges),
        h \in BOOLEAN }
    \cup
    { << [ArgvStdio EXCEPT !.port = a, !.http = h],
         [NoEnv EXCEPT !.MCP_PORT = e] >> :
        a \in OptionValues(PortEdges),
        e \in EnvValues(Strs(PortChars, MaxLen)),
        h \in BOOLEAN }

\* reply-to: --reply-to given never, once or twice, against the variable
ReplyInputs ==
    { << [ArgvStdio EXCEPT !.replyTo = a, !.http = h],
         [NoEnv EXCEPT !.REPLY_TO_EMAIL_ADDRESSES = e] >> :
        a \in { NotGiven, Once(<<" ", "a">>), Once(<<>>),
                Repeated(<<<<"a">>, <<" ", "b">>>>) },
        e \in EnvValues(Strs(ReplyChars, MaxLen)),
        h \in BOOLEAN }

\* the default sender, and --help
OtherInputs ==
    { << [ArgvStdio EXCEPT !.sender = a, !.help = hl, !.key = k],
         [NoEnv EXCEPT !.SENDER_EMAIL_ADDRESS = e] >> :
        a \in {NotGiven, Once(<<" ", "s">>), Once(<<>>)},
        e \in EnvValues({<<>>, <<" ">>, <<" ", "t", " ">>}),
        hl \in BOOLEAN,
        k \in {NotGiven, Once(<<"k">>)} }

Inputs == KeyInputs \cup PortInputs \cup ReplyInputs \cup OtherInputs

\* the process before index.ts has run
InitCli ==
    /\ launch = "entry"
    /\ listener = "idle"
    /\ sessions = EmptyRegistry
    /\ transports = <<>>
    /\ minted = {}
    /\ shut = <<>>
    /\ proc = "running"
    /\ last = NoRequest
    /\ promise = "none"
    /\ \E input \in Inputs : cli = CliMain(input[1], input[2])
    /\ stdio = NoStdio
    /\ call = NoCall

NextCli ==
    \/ Main
    \/ Listen
    \/ ListenError
    \/ StdioConnected
    \/ StdioConnectFail
    \/ StdioRequest
    \/ SignalEntry

SpecCli == InitCli /\ [][NextCli]_vars

----------------------------------------------------------------------------
(* A tool call, from the arrival of the message to its result *)

\* the protocol server checks the arguments against the input schema the
\* tool was registered with; the handler runs only when they pass
ToolValidate ==
    /\ call.pc = "received"
    /\ IF (call.tool = "send-batch-emails" /\ validBatch(call.args))
            \/ (call.tool # "send-batch-emails"
                    /\ validSingle(call.sender, call.args))
       THEN call' = [call EXCEPT !.pc = "handling",
                                 !.from = parsedFrom(call.sender, call.args.from)]
       ELSE call' = [call EXCEPT !.pc = "done", !.result = "invalid params"]
    /\ UNCHANGED <<launch, listener, sessions, transports, minted, shut, proc,
                   last, promise, cli, stdio>>

\* the handler up to its upstream call; reading an attached file may fail
ToolHandle ==
    /\ call.pc = "handling"
    /\ \E readFile \in {"resolves", "rejects"} :
        LET outcome ==
              IF call.tool = "send-batch-emails"
              THEN sendBatch(call.sender, call.args.emails)
              ELSE sendSingle(call.sender, call.from, call.args.attachments,
                              readFile)
        IN  IF outcome.threw
            THEN call' = [call EXCEPT !.pc = "done", !.result = "isError",
                                      !.error = outcome.error]
            ELSE call' = [call EXCEPT !.pc = "sending", !.sent = TRUE,
                                      !.request = outcome.request]
    /\ UNCHANGED <<launch, listener, sessions, transports, minted, shut, proc,
                   last, promise, cli, stdio>>

\* the upstream call ends and the handler returns or throws
ToolUpstream ==
    /\ call.pc = "sending"
    /\ \E upstream \in Upstream :
        call' = [call EXCEPT !.pc = "done",
                             !.result = toolResponse(sendEmail(upstream)).message]
    /\ UNCHANGED <<launch, listener, sessions, transports, minted, shut, proc,
                   last, promise, cli, stdio>>

\* the default sender a server is built with: none (createMcpServer called
\* without one), or what resolveConfig makes of --sender and
\* SENDER_EMAIL_ADDRESS
Senders ==
    {Unset} \cup {Set(resolveConfig(i[1], i[2]).config.senderEmailAddress) :
                    i \in {j \in OtherInputs : j[1].key # NotGiven}}

FromValues ==
    {Unset, Set(<<>>), Set(<<"f", "@", "x">>), Set(<<"f">>)}

AttachmentValues ==
    [ filePath : {Unset, Set(<<>>), Set(<<"p">>)},
      url      : {Unset, Set(<<>>), Set(<<"u">>)},
      content  : {Unset, Set(<<>>), Set(<<"c">>)} ]

EmailValues ==
    [ to   : {"r1", "r2"},
      from : {Unset, Set(<<"f", "@", "x">>), Set(<<"f">>)} ]

ToolCalls ==
    { NewCall("send-email", sender,
          [from |-> from, attachments |-> atts, emails |-> <<>>]) :
        sender \in Senders, from \in FromValues,
        atts \in SeqsUpTo(AttachmentValues, MaxAttachments) }
    \cup
    { NewCall("create-broadcast", sender,
          [from |-> from, attachments |-> <<>>, emails |-> <<>>]) :
        sender \in Senders, from \in FromValues }
    \cup
    { NewCall("send-batch-emails", sender,
          [from |-> Unset, attachments |-> <<>>, emails |-> emails]) :
        sender \in Senders, emails \in SeqsUpTo(EmailValues, MaxBatch) }

\* a server that has received a tool call
InitTools ==
    /\ launch = "entry"
    /\ listener = "listening"
    /\ sessions = EmptyRegistry
    /\ transports = <<>>
    /\ minted = {}
    /\ shut = <<>>
    /\ proc = "running"
    /\ last = NoRequest
    /\ promise = resolve(NewPromise)
    /\ cli = CliStarted(ArgvHttp, NoEnv, resolveConfig(ArgvHttp, NoEnv).config, Null)
    /\ stdio = NoStdio
    /\ call \in ToolCalls

NextTools ==
    \/ ToolValidate
    \/ ToolHandle
    \/ ToolUpstream

SpecTools == InitTools /\ [][NextTools]_vars

----------------------------------------------------------------------------
(* The credential of an initialize request *)

HeaderChars == {" ", "a", "B"}

\* Authorization headers: none, "Bearer " and any text, any text without the
\* prefix, and near misses of the prefix
BearerInputs ==
    {NoHeader}
        \cup {Header(BearerPrefix \o v) : v \in Strs(HeaderChars, MaxLen)}
        \cup {Header(v) : v \in Strs(HeaderChars, MaxLen)}
        \cup { Header(<<"B", "e", "a", "r", "e", "r">>),
               Header(<<"B", "e", "a", "r", "e", "r", "a">>),
               Header(<<"b", "e", "a", "r", "e", "r", " ", "a">>),
               Header(<<" ">> \o BearerPrefix \o <<"a">>),
               Header(<<"B", "a", "s", "i", "c", " ", "a">>) }

\* an initialize request without session identifier has reached the create
\* branch
InitBearer ==
    /\ launch = "entry"
    /\ listener = "listening"
    /\ sessions = EmptyRegistry
    /\ transports = <<>>
    /\ minted = {}
    /\ shut = <<>>
    /\ proc = "running"
    /\ \E auth \in BearerInputs :
          last = Request("none", NoSid, "POST", "initialize", auth, NoResponse,
                         0, Null)
    /\ promise = resolve(NewPromise)
    /\ cli = CliStarted(ArgvHttp, NoEnv, resolveConfig(ArgvHttp, NoEnv).config, Null)
    /\ stdio = NoStdio
    /\ call = NoCall

\* const apiKey = extractBearerToken(req); if (!apiKey) { 401; return }
ExtractBearer ==
    /\ last.branch = "none"
    /\ LET apiKey == extractBearerToken(last.auth) IN
       last' = [last EXCEPT
                  !.branch = "create",
                  !.handle = apiKey,
                  !.response =
                     IF apiKey = Null
                     THEN sendJsonRpcError(401,
                            "Unauthorized: provide a Resend API key via Authorization: Bearer <key>")
                     ELSE NoResponse]
    /\ UNCHANGED <<launch, call, promise, cli, stdio, listener, sessions,
                   transports, minted, shut, proc>>

NextBearer == ExtractBearer

SpecBearer == InitBearer /\ [][NextBearer]_vars

----------------------------------------------------------------------------

Next ==
    \/ Listen
    \/ ListenError
    \/ Reject401
    \/ CreateBegin
    \/ \E t \in 1..Len(transports) : CreateResume(t)
    \/ \E t \in 1..Len(transports) : InitializeFail(t)
    \/ Continuation
    \/ Reject404
    \/ Reject400
    \/ Unrouted
    \/ \E t \in 1..Len(transports) : ChannelClose(t)
    \/ SignalEntry
    \/ SignalDirect
    \/ \E k \in 1..Len(shut) : DrainResume(k)

Spec == Init /\ [][Next]_vars

\* the process as the entry point starts it
InitEntry == Init /\ launch = "entry"

NextEntry ==
    \/ Listen
    \/ ListenError
    \/ Reject401
    \/ CreateBegin
    \/ \E t \in 1..Len(transports) : CreateResume(t)
    \/ \E t \in 1..Len(transports) : InitializeFail(t)
    \/ Continuation
    \/ Reject404
    \/ Reject400
    \/ Unrouted
    \/ \E t \in 1..Len(transports) : ChannelClose(t)
    \/ SignalEntry

SpecEntry == InitEntry /\ [][NextEntry]_vars

\* runHttp called directly: shutdown() is the only listener of the signals
InitDirect == Init /\ launch = "direct"

NextDirect ==
    \/ Listen
    \/ ListenError
    \/ Reject401
    \/ CreateBegin
    \/ \E t \in 1..Len(transports) : CreateResume(t)
    \/ \E t \in 1..Len(transports) : InitializeFail(t)
    \/ Continuation
    \/ Reject404
    \/ Reject400
    \/ Unrouted
    \/ \E t \in 1..Len(transports) : ChannelClose(t)
    \/ SignalDirect
    \/ \E k \in 1..Len(shut) : DrainResume(k)

\* the event loop runs the rest of shutdown() once the promise it awaits
\* has settled
SpecShutdown ==
    /\ InitDirect
    /\ [][NextDirect]_vars
    /\ WF_vars(\E k \in 1..Len(shut) : DrainResume(k))

----------------------------------------------------------------------------
(* Identifiers without the uniqueness of randomUUID *)

\* the handshake completes with an identifier the generator has returned
\* before: randomUUID() is the only thing that keeps identifiers apart, and
\* the callback stores the channel under whatever it is given
CreateCollide(t) ==
    /\ proc = "running"
    /\ transports[t].pc = "connecting"
    /\ \E sid \in minted :
        /\ transports' = [transports EXCEPT ![t].sessionId = sid,
                                            ![t].pc = "initialized"]
        /\ sessions' = onsessioninitialized(sessions, sid, t)
    /\ UNCHANGED <<launch, call, promise, cli, stdio, listener, minted, shut,
                   proc, last>>

NextRegistry ==
    \/ NextEntry
    \/ \E t \in 1..Len(transports) : CreateCollide(t)

SpecRegistry == InitEntry /\ [][NextRegistry]_vars

----------------------------------------------------------------------------
(* Vocabulary of the properties *)

Transports == 1..Len(transports)

\* the transport is the value of some registry entry
Registered(t) == \E sid \in DOMAIN sessions : sessions[sid] = t

\* the latest request was handed to the channel of transport `last.transport`
Routed == last.branch = "continue" /\ last.transport # 0

\* a step that handles a request (a request repeated with the same outcome
\* leaves `last` as it is, and then changes nothing else either)
RequestStep == last' # last

\* an Authorization header that is missing or not `Bearer <token>` with a
\* token that is non-empty after trimming
Malformed(authorization) ==
    \/ ~authorization.present
    \/ Len(authorization.value) < 7
    \/ SubSeq(authorization.value, 1, 7) # <<"B", "e", "a", "r", "e", "r", " ">>
    \/ \A i \in 8..Len(authorization.value) : authorization.value[i] = " "

RegistryUntouched == UNCHANGED <<sessions, transports, minted>>

----------------------------------------------------------------------------
(* C1: cross-session isolation.  Every registry entry leads to the channel
   whose own session identifier is the key, and that channel's server is
   closed over the handle built from the credential of the initialize
   request that created it; a request routed by its mcp-session-id header is
   dispatched with exactly that handle, whatever other sessions exist. *)
C1_CrossSessionIsolation ==
    /\ \A sid \in DOMAIN sessions :
          /\ transports[sessions[sid]].sessionId = sid
          /\ transports[sessions[sid]].server = transports[sessions[sid]].apiKey
    /\ Routed =>
          /\ transports[last.transport].sessionId = last.sid.value
          /\ last.handle = transports[last.transport].apiKey

\* two sessions with different credentials are active and a request is
\* routed to one of them
C1_Witness ==
    /\ Routed
    /\ Registered(last.transport)
    /\ \E u \in Transports :
          /\ u # last.transport
          /\ Registered(u)
          /\ transports[u].apiKey # transports[last.transport].apiKey

(* C2: a request whose mcp-session-id header is not the identifier of a
   registered session gets 404 / -32001 / "Session not found" and reaches no
   channel: every request that carries the header is either routed to the
   registered channel of that identifier or answered with that 404.  Stated
   here for the non-empty header values. *)
C2_UnknownSessionGets404 ==
    (last.branch # "none" /\ last.sid.present /\ last.sid.value # "") =>
        \/ Routed /\ transports[last.transport].sessionId = last.sid.value
        \/ last.response = sessionNotFound /\ last.transport = 0

\* the request asks for a new session: a POST of an initialize request that
\* carries no session identifier
AsksForSession(r) ==
    r.branch # "none" /\ ~r.sid.present /\ r.method = "POST" /\ r.body = "initialize"

(* C3: an initialize request (one that asks for a new session) whose
   Authorization header is missing or malformed is answered 401 / -32000,
   and handling it leaves the registry, the channels and the identifiers as
   they were: no handle, channel or server is constructed. *)
C3_UnauthorizedCreatesNothing ==
    [][ (RequestStep /\ AsksForSession(last') /\ Malformed(last'.auth)) =>
            /\ last'.response.status = 401
            /\ last'.response.code = -32000
            /\ last'.transport = 0
            /\ RegistryUntouched ]_vars

\* a 401 was answered while a session was registered
C3_Witness ==
    /\ AsksForSession(last)
    /\ Malformed(last.auth)
    /\ last.response.status = 401
    /\ DOMAIN sessions # {}

(* C4: a request to /mcp with no session header whose payload is not an
   initialize request is answered 400 / -32000 / "Bad Request: No valid session ID
   provided", and handling it creates no session, handle or registry
   entry. *)
C4_NoSessionNotInitialize ==
    [][ (RequestStep /\ last'.path = "/mcp" /\ ~last'.sid.present
            /\ last'.body # "initialize") =>
            /\ last'.response =
                  [status |-> 400, code |-> -32000,
                   message |-> "Bad Request: No valid session ID provided"]
            /\ last'.transport = 0
            /\ RegistryUntouched ]_vars

\* a 400 was answered to a request without session header
C4_Witness ==
    /\ last.branch = "badrequest"
    /\ ~last.sid.present
    /\ last.body # "initialize"
    /\ last.response.status = 400
    /\ DOMAIN sessions # {}

(* C5: a termination signal drains every session: when process exit is
   invoked, every session that was registered when the signal arrived has
   been removed from the registry.  Under the entry point the exit is part of
   the signal's own step, so those sessions are the ones still registered;
   shutdown() keeps them in its key list. *)
C5_ShutdownDrainsEverySession ==
    proc = "exit0" =>
        /\ launch = "entry" => DOMAIN sessions = {}
        /\ \A k \in 1..Len(shut) : \A i \in 1..Len(shut[k].keys) :
              shut[k].keys[i] \notin DOMAIN sessions

(* C6: shutdown ordering: when shutdown() invokes process exit the registry
   is empty and the listener has stopped accepting, also when an initialize
   request completed its handshake while the drain awaited a close. *)
C6_RegistryEmptyAtExit ==
    (proc = "exit0" /\ Len(shut) > 0) =>
        DOMAIN sessions = {} /\ listener = "closed"

\* a session whose channel has closed: the channel holds an identifier and
\* has reported closure
Closed(t) == transports[t].pc = "closed" /\ transports[t].sessionId # ""

C7_ClosedStaysClosed ==
    \A t \in Transports : Closed(t) =>
        /\ transports[t].sessionId \notin DOMAIN sessions
        /\ ~Registered(t)
        /\ closed(sessions, transports[t]) = sessions
        /\ delete(sessions, transports[t].sessionId) = sessions

C7_LaterRequestsGet404 ==
    \A t \in Transports :
        (Closed(t) /\ RequestStep /\ last'.sid = Sid(transports[t].sessionId)) =>
            /\ last'.response = sessionNotFound
            /\ last'.transport = 0
            /\ RegistryUntouched

(* C7: once a session's channel has closed, its identifier is not in the
   registry, every later request carrying it is answered 404 / -32001, and
   closing or removing it again leaves the registry as it is. *)
C7_ClosedSessionNotFound ==
    []C7_ClosedStaysClosed /\ [][C7_LaterRequestsGet404]_vars

\* a request with the identifier of a closed session was answered 404 while
\* another session was registered
C7_Witness ==
    /\ last.response = sessionNotFound
    /\ \E t \in Transports : Closed(t) /\ last.sid = Sid(transports[t].sessionId)
    /\ DOMAIN sessions # {}

(* C8: every session creation yields an identifier never used before: the
   identifier a channel receives was not returned by the generator before and
   is held by no other channel, open or closed. *)
C8_FreshSessionIdentifier ==
    [][ \A t \in Transports :
          (transports[t].sessionId = "" /\ transports'[t].sessionId # "") =>
              /\ transports'[t].sessionId \notin minted
              /\ transports'[t].sessionId \notin DOMAIN sessions
              /\ \A u \in Transports :
                    transports[u].sessionId # transports'[t].sessionId ]_vars

\* a second session was created after the first one was closed
C8_Witness ==
    \E t, u \in Transports :
        /\ Closed(t)
        /\ transports[u].sessionId # ""
        /\ transports[u].sessionId # transports[t].sessionId
        /\ Registered(u)

(* C9: a session is in the registry only once the handshake has confirmed it:
   no channel that still awaits its session-initialized callback, and no
   channel whose create attempt failed, has a registry entry. *)
C9_NoEntryWithoutHandshake ==
    \A t \in Transports :
        transports[t].pc \in {"connecting", "failed"} => ~Registered(t)

C10_FullyConstructed ==
    \A sid \in DOMAIN sessions :
        LET tr == transports[sessions[sid]] IN
        /\ tr.onclose
        /\ tr.pc # "connecting"
        /\ tr.sessionId = sid
        /\ tr.server = tr.apiKey
        /\ tr.pc # "closed"

C10_RemovedOnClose ==
    \A t \in Transports :
        (transports[t].pc # "closed" /\ transports'[t].pc = "closed") =>
            /\ lookup(sessions', transports[t].sessionId) = Undefined
            /\ \A sid \in DOMAIN sessions' : sessions'[sid] # t

(* C10: a lookup never returns a partially constructed session: a registered
   channel has its close callback installed and is connected to a server
   bound to its own handle; and when a channel closes, its session is out of
   the registry in the same step, so no later lookup returns it. *)
C10_NoPartialSession ==
    []C10_FullyConstructed /\ [][C10_RemovedOnClose]_vars

\* a lookup of a session removed by its close callback found nothing, while
\* another channel was still under construction
C10_Witness ==
    /\ last.branch = "notfound"
    /\ \E t \in Transports : Closed(t) /\ last.sid = Sid(transports[t].sessionId)
    /\ \E u \in Transports : transports[u].pc = "connecting"

----------------------------------------------------------------------------
(* The registry as a frame *)

\* the registry without the entry of one identifier, all others as they were
Without(reg, sid) == [k \in DOMAIN reg \ {sid} |-> reg[k]]

\* session creation: the handshake of channel t completes in this step and
\* the registry gains the entry of its new identifier, and nothing else
C11_Creation(t) ==
    /\ transports[t].sessionId = ""
    /\ transports'[t].sessionId # ""
    /\ DOMAIN sessions' = DOMAIN sessions \cup {transports'[t].sessionId}
    /\ sessions'[transports'[t].sessionId] = t
    /\ \A k \in DOMAIN sessions : sessions'[k] = sessions[k]

\* the close callback: channel t reports closure in this step and the
\* registry loses the entry of its identifier, and nothing else
C11_CloseCallback(t) ==
    /\ transports'[t].pc = "closed"
    /\ sessions' = Without(sessions, transports[t].sessionId)

\* the shutdown drain: a step of a shutdown() task, which only removes
C11_Drain ==
    /\ shut' # shut \/ (Len(shut) > 0 /\ proc' # proc)
    /\ DOMAIN sessions' \subseteq DOMAIN sessions
    /\ \A k \in DOMAIN sessions' : sessions'[k] = sessions[k]

\* a step that answers a request with 400, 401 or 404
C11_Rejected == RequestStep /\ last'.response.status \in {400, 401, 404}

\* every session that was active is still active and routable
C11_StillRoutable ==
    \A sid \in DOMAIN sessions : lookup(sessions', sid) = lookup(sessions, sid)

C11_ChangesOnlyBy ==
    sessions' # sessions =>
        \/ \E t \in Transports : C11_Creation(t)
        \/ \E t \in Transports : C11_CloseCallback(t)
        \/ C11_Drain

(* C11 as stated: the registry changes only by session creation, by the
   close callback and by the shutdown drain; a continuation request and
   every request rejected with 400, 401 or 404 leave the registry exactly as
   it was. *)
C11_RegistryFrame ==
    [][ /\ C11_ChangesOnlyBy
        /\ (C11_Rejected \/ (RequestStep /\ last'.branch = "continue")) =>
              sessions' = sessions /\ C11_StillRoutable ]_vars

(* C11, amended: the registry changes only by session creation, by the
   close callback and by the shutdown drain; every request rejected with
   400, 401 or 404, and every continuation request other than a DELETE,
   leaves the registry exactly as it was; a continuation DELETE makes the
   channel close, and the close callback removes that session's entry and
   no other. *)
C11_RegistryFrameAmended ==
    [][ /\ C11_ChangesOnlyBy
        /\ (C11_Rejected \/ (RequestStep /\ last'.branch = "continue"
                                /\ last'.method # "DELETE")) =>
              sessions' = sessions /\ C11_StillRoutable
        /\ (RequestStep /\ last'.branch = "continue" /\ last'.method = "DELETE"
                /\ last'.transport # 0) =>
              sessions' = Without(sessions, last'.sid.value) ]_vars

\* a continuation DELETE ended one session while another stayed registered
C11_Witness ==
    /\ Routed
    /\ last.method = "DELETE"
    /\ Closed(last.transport)
    /\ \E u \in Transports : u # last.transport /\ Registered(u)

----------------------------------------------------------------------------
(* Tool failures *)

\* the latest request ran a tool whose upstream call returned an error or
\* whose handler threw
ToolFailed(r) == r.branch = "continue" /\ r.upstream \in {"error", "throws"}

(* C12: a tool failure (the upstream call returns an error, or the handler
   throws) is reported as a tool-level error inside a successful response of
   that request, and does not close the session: the registry and the
   channels are as they were, and the identifier still leads to the same
   session. *)
C12_ToolFailureKeepsSession ==
    [][ (RequestStep /\ ToolFailed(last')) =>
            /\ last'.response.status = 200
            /\ last'.response.message = "isError"
            /\ UNCHANGED <<sessions, transports>>
            /\ lookup(sessions', last'.sid.value) =
                  [kind |-> "transport", t |-> last'.transport]
            /\ transports'[last'.transport].sessionId = last'.sid.value ]_vars

\* a tool failed in one session while another session was registered, and
\* the failing session is still registered under its identifier
C12_Witness ==
    /\ ToolFailed(last)
    /\ last.response.message = "isError"
    /\ last.sid.value \in DOMAIN sessions
    /\ sessions[last.sid.value] = last.transport
    /\ \E u \in Transports : u # last.transport /\ Registered(u)

----------------------------------------------------------------------------
(* Transport start *)

\* runStdio has been called
StdioStarted == stdio.pc # "idle"

(* C13: the stdio transport.  Once runStdio has been called there is exactly
   one protocol server, built from the client handle the entry point made,
   and exactly one connect; no channel of the HTTP transport and no registry
   entry exists in this mode, whatever messages the server handles; and when
   the connect fails the promise of runStdio is rejected. *)
C13_StdioSingleServer ==
    /\ StdioStarted =>
          /\ Len(stdio.servers) = 1
          /\ stdio.servers[1] = cli.resend
          /\ stdio.connects = 1
          /\ DOMAIN sessions = {}
          /\ transports = <<>>
    /\ stdio.pc = "failed" => promise = "rejected"
    /\ cli.config.transport = "stdio" => DOMAIN sessions = {}

\* the stdio server is connected and has handled a tool call
C13_Witness ==
    /\ stdio.pc = "connected"
    /\ stdio.handled = "tools/call"
    /\ promise = "resolved"

(* C14: an error that escapes the transport start of the entry point ends
   the process with exit code 1.  When the promise of runHttp or runStdio is
   rejected (the listener failed to bind, the connect failed) the process
   has exited with code 1; a process that is still running after the start
   has a listener that is binding or listening, or a stdio server that is
   connecting or connected. *)
C14_StartFailureIsFatal ==
    /\ promise = "rejected" => proc = "exit1"
    /\ listener = "error" => promise = "rejected"
    /\ stdio.pc = "failed" => promise = "rejected"
    /\ (proc = "running" /\ cli.pc = "started") =>
          \/ listener \in {"binding", "listening"}
          \/ stdio.pc \in {"connecting", "connected"}

\* the listener of an HTTP start failed to bind and the process exited 1
C14_Witness ==
    /\ cli.config.transport = "http"
    /\ listener = "error"
    /\ promise = "rejected"
    /\ proc = "exit1"

C15_ResolvedMeansListening ==
    /\ promise = "resolved" => listener \in {"listening", "closed"}
    /\ listener = "error" => promise = "rejected"
    /\ listener = "binding" => promise = "pending"

C15_ResolvesOnListen ==
    (promise # "resolved" /\ promise' = "resolved") =>
        listener = "binding" /\ listener' = "listening"

(* C15: the promise runHttp returns resolves only when the listener has
   been bound: it is pending while the listener is binding, it becomes
   resolved in the step in which the listener starts listening, and it is
   rejected when the listener emits an error before that. *)
C15_ResolvesAfterListening ==
    []C15_ResolvedMeansListening /\ [][C15_ResolvesOnListen]_vars

\* the promise has resolved and the listener has answered a request
C15_Witness ==
    /\ promise = "resolved"
    /\ listener = "listening"
    /\ last.branch # "none"

(* C16: once the HTTP transport is listening, GET /health is answered with
   status 200 and body {"status":"ok"}, with no session header and no
   Authorization header, and the sessions stay as they were. *)
C16_HealthOk ==
    last.path = "/health" =>
        last.response.status = 200 /\ last.response.message = "ok"

----------------------------------------------------------------------------
(* Configuration *)

\* index.ts has run on an argv without --help
Resolved == cli.pc # "main" /\ ~cli.parsed.help

\* the string is empty or made of blanks only
Blank(str) == \A i \in 1..Len(str) : str[i] = " "

\* v is str without the blanks around it
IsTrimOf(v, str) ==
    /\ v # <<>> => v[1] # " " /\ v[Len(v)] # " "
    /\ \E i, j \in 0..Len(str) :
          /\ i + Len(v) + j = Len(str)
          /\ SubSeq(str, i + 1, i + Len(v)) = v
          /\ \A n \in 1..i : str[n] = " "
          /\ \A n \in (Len(str) - j + 1)..Len(str) : str[n] = " "

\* the API key the command line and the environment give: --key when it is
\* a string, otherwise RESEND_API_KEY
GivenKey ==
    IF cli.parsed.key.kind = "string" THEN Set(cli.parsed.key.value[1])
    ELSE cli.env.RESEND_API_KEY

NoApiKeyError == "No API key. Set RESEND_API_KEY or use --key=<your-resend-api-key>"

(* C17: the API key in stdio mode.  The key is --key when that is a string
   and RESEND_API_KEY otherwise; when it is missing or blank resolveConfig
   fails with the error that names the API key, and otherwise the config
   carries the key without the blanks around it. *)
C17_StdioApiKey ==
    (Resolved /\ ~cli.parsed.http) =>
        IF ~GivenKey.present \/ Blank(GivenKey.value)
        THEN /\ cli.pc = "exited"
             /\ cli.error = NoApiKeyError
             /\ cli.config = NoConfig
        ELSE /\ cli.pc = "started"
             /\ cli.error = ""
             /\ cli.config.transport = "stdio"
             /\ cli.config.apiKey.present
             /\ IsTrimOf(cli.config.apiKey.value, GivenKey.value)

\* stdio started with the key of the environment, blanks removed
C17_Witness ==
    /\ ~cli.parsed.http
    /\ cli.parsed.key.kind # "string"
    /\ cli.env.RESEND_API_KEY = Set(<<" ", "e">>)
    /\ cli.pc = "started"
    /\ cli.config.apiKey = Set(<<"e">>)

(* C18: HTTP mode needs no API key at startup.  With --http resolveConfig
   succeeds whatever --key and RESEND_API_KEY are, the entry point builds no
   client handle and calls runHttp, and no stdio server exists. *)
C18_HttpNeedsNoKey ==
    (Resolved /\ cli.parsed.http) =>
        /\ cli.pc = "started"
        /\ cli.error = ""
        /\ cli.config.transport = "http"
        /\ cli.resend = Null
        /\ stdio = NoStdio
        /\ listener # "idle"

\* the HTTP transport listens after a start without any API key
C18_Witness ==
    /\ cli.parsed.http
    /\ cli.parsed.key = NotGiven
    /\ cli.env.RESEND_API_KEY = Unset
    /\ cli.pc = "started"
    /\ listener = "listening"

\* the integer a port string parses to, when it is one of 1..65535
PortOf(isString, str) ==
    IF isString /\ ~Blank(str) /\ ~parseInt(trim(str)).nan
          /\ parseInt(trim(str)).n \in 1..65535
    THEN parseInt(trim(str)).n
    ELSE 0

ArgPort == PortOf(cli.parsed.port.kind = "string", cli.parsed.port.value[1])
EnvPort == PortOf(cli.env.MCP_PORT.present, cli.env.MCP_PORT.value)

(* C19: the resolved port is the --port value when it parses to an integer
   in 1..65535, otherwise the MCP_PORT value when that parses to an integer
   in 1..65535, otherwise 3000; it is always an integer in 1..65535.  A
   string parses as Number.parseInt reads it: blanks around it are dropped
   and the integer is its leading run of digits, so "8x" parses to 8. *)
C19_PortResolution ==
    (Resolved /\ cli.pc = "started") =>
        /\ cli.config.port \in 1..65535
        /\ cli.config.port =
              IF ArgPort # 0 THEN ArgPort
              ELSE IF EnvPort # 0 THEN EnvPort
              ELSE 3000

\* --port is out of range and the port comes from MCP_PORT
C19_Witness ==
    /\ cli.pc = "started"
    /\ cli.parsed.port = Once(<<"6", "5", "5", "3", "6">>)
    /\ cli.env.MCP_PORT = Set(<<" ", "9", "0", "0", "0", " ">>)
    /\ cli.config.port = 9000

\* the characters of a list of addresses, one after the other
RECURSIVE Concat(_)
Concat(addresses) ==
    IF addresses = <<>> THEN <<>> ELSE Head(addresses) \o Concat(Tail(addresses))

\* the number of comma-separated parts of str that hold a non-blank character
Parts(str) ==
    LET cuts == {0, Len(str) + 1} \cup {i \in 1..Len(str) : str[i] = ","} IN
    Cardinality({c \in cuts : \E i \in (c + 1)..Len(str) :
                    /\ str[i] \notin {",", " "}
                    /\ \A j \in (c + 1)..i : str[j] # ","})

(* C20: reply-to resolution.  The addresses are the --reply-to values when
   any is given; otherwise the comma-separated parts of
   REPLY_TO_EMAIL_ADDRESSES, each without the blanks around it, the empty
   parts left out; otherwise the empty list.  No address taken from the
   environment is empty or has a blank at either end. *)
C20_ReplyToResolution ==
    (Resolved /\ cli.pc = "started") =>
        LET r == cli.config.replierEmailAddresses
            a == cli.parsed.replyTo
            v == cli.env.REPLY_TO_EMAIL_ADDRESSES
        IN  IF a.kind # "undefined" THEN r = a.value
            ELSE IF ~v.present \/ Blank(v.value) THEN r = <<>>
            ELSE /\ \A i \in 1..Len(r) :
                       /\ r[i] # <<>>
                       /\ r[i][1] # " " /\ r[i][Len(r[i])] # " "
                       /\ \A n \in 1..Len(r[i]) : r[i][n] # ","
                 /\ Len(r) = Parts(v.value)
                 /\ SelectSeq(Concat(r), LAMBDA c : c # " ") =
                       SelectSeq(v.value, LAMBDA c : c \notin {",", " "})
                 /\ r = SelectSeq(
                          [i \in 1..Len(split(v.value, ",")) |->
                              trim(split(v.value, ",")[i])],
                          LAMBDA s : s # <<>>)

\* an empty part and a blank before the only address of the variable
C20_Witness ==
    /\ cli.pc = "started"
    /\ cli.parsed.replyTo = NotGiven
    /\ cli.env.REPLY_TO_EMAIL_ADDRESSES = Set(<<",", " ", "a">>)
    /\ cli.config.replierEmailAddresses = << <<"a">> >>

----------------------------------------------------------------------------
(* resolveConfigOrExit *)

\* resolveConfig has nothing to return: stdio mode without a usable API key
ConfigInvalid ==
    ~cli.parsed.http /\ (~GivenKey.present \/ Blank(GivenKey.value))

C21_Outcome ==
    cli.pc # "main" =>
        IF cli.parsed.help
        THEN /\ cli.pc = "exited" /\ proc = "exit0"
             /\ cli.printed = "help"
             /\ cli.error = "" /\ cli.config = NoConfig
        ELSE IF ConfigInvalid
        THEN /\ cli.pc = "exited" /\ proc = "exit1"
             /\ cli.printed = "error"
             /\ cli.error = NoApiKeyError
        ELSE /\ cli.pc = "started"
             /\ cli.printed = "" /\ cli.error = ""
             /\ cli.config = resolveConfig(cli.parsed, cli.env).config

C21_ReturnsWithoutExit ==
    (cli.pc = "main" /\ cli'.pc = "started") => proc' = "running"

(* C21: resolveConfigOrExit.  With --help it prints the help text and exits
   with code 0, whether or not the configuration is valid; otherwise, when
   resolveConfig fails, it prints the error and exits with code 1;
   otherwise it returns the resolved config and the process goes on
   running. *)
C21_ResolveConfigOrExit ==
    []C21_Outcome /\ [][C21_ReturnsWithoutExit]_vars

\* --help on a command line without any API key: help is printed, exit 0
C21_Witness ==
    /\ cli.parsed.help
    /\ ConfigInvalid
    /\ cli.printed = "help"
    /\ proc = "exit0"

----------------------------------------------------------------------------
(* Tools *)

FromTools == {"send-email", "create-broadcast"}

\* C22: with no default sender configured, send-email and create-broadcast
\* take a from address on every call (a call without one, or with an empty
\* one, is refused before the handler and nothing is sent) and what they
\* send carries that address; with a default sender configured, what they
\* send carries exactly the configured address, whatever the call gave.
C22_DefaultSender ==
    call.tool \in FromTools =>
        /\ (~given(call.sender) /\ ~given(call.args.from)) =>
                /\ ~call.sent
                /\ call.pc \in {"received", "done"}
                /\ call.pc = "done" => call.result = "invalid params"
        /\ call.sent =>
                /\ call.request.from.present
                /\ call.request.from.value # <<>>
                /\ IF given(call.sender)
                   THEN call.request.from = call.sender
                   ELSE call.request.from = call.args.from

\* a create-broadcast call that names a from address has been sent for a
\* server with another default sender
C22_Witness ==
    /\ call.tool = "create-broadcast"
    /\ call.sent
    /\ given(call.sender)
    /\ given(call.args.from)
    /\ call.args.from # call.sender

\* an email of the batch has no from address and no default sender is
\* configured: neither --sender nor SENDER_EMAIL_ADDRESS gave an address
NoSenderFor(email) == ~email.from.present /\ ~given(call.sender)

\* C29: every email of a send-batch-emails call is submitted with its own
\* from address when it has one and with the default sender otherwise; when
\* an email has neither, the tool fails with an error that names that
\* email's recipients and makes no upstream call, so no email is submitted
\* with an empty or missing from.
C29_BatchSenderFallback ==
    call.tool = "send-batch-emails" =>
        /\ call.sent =>
              \A i \in 1..Len(call.request.emails) :
                  /\ call.request.emails[i].from
                        = orSender(call.args.emails[i].from, call.sender)
                  /\ given(call.request.emails[i].from)
        /\ (call.pc \in {"sending", "done"} /\ call.result # "invalid params"
                /\ \E i \in 1..Len(call.args.emails) :
                        NoSenderFor(call.args.emails[i])) =>
              /\ ~call.sent
              /\ \E i \in 1..Len(call.args.emails) :
                    /\ NoSenderFor(call.args.emails[i])
                    /\ call.error.to = call.args.emails[i].to

\* the attachments a send-email call has submitted, with what was asked
Submitted ==
    IF call.tool = "send-email" /\ call.sent
    THEN {<<call.args.attachments[i], call.request.attachments[i]>> :
            i \in 1..Len(call.args.attachments)}
    ELSE {}

\* C30 as stated: every submitted attachment uses exactly one source, so
\* it carries a content or a path, and never both.
C30_ExactlyOneSource ==
    \A p \in Submitted : p[2].content.present # p[2].path.present

\* C30: a submitted attachment uses at most one source, filePath before url
\* before content: with a filePath it carries the bytes of the file and no
\* path; else with a url it carries that path and no content; else with a
\* content it carries the decoded bytes and no path; with none of the
\* three (or only empty ones) it carries neither. It never carries both a
\* content and a path, and as many attachments are submitted as were given.
C30_AttachmentPriority ==
    /\ (call.tool = "send-email" /\ call.sent) =>
            Len(call.request.attachments) = Len(call.args.attachments)
    /\ \A p \in Submitted :
        LET att == p[1]
            result == p[2]
        IN  /\ ~(result.content.present /\ result.path.present)
            /\ given(att.filePath) =>
                    /\ result.content = Set(FileBytes(att.filePath.value))
                    /\ ~result.path.present
            /\ (~given(att.filePath) /\ given(att.url)) =>
                    /\ result.path = Set(att.url.value)
                    /\ ~result.content.present
            /\ (~given(att.filePath) /\ ~given(att.url) /\ given(att.content)) =>
                    /\ result.content = Set(Base64Bytes(att.content.value))
                    /\ ~result.path.present
            /\ (~given(att.filePath) /\ ~given(att.url) /\ ~given(att.content)) =>
                    /\ ~result.content.present
                    /\ ~result.path.present

\* an attachment with all three sources has been submitted
C30_Witness ==
    \E p \in Submitted :
        /\ given(p[1].filePath) /\ given(p[1].url) /\ given(p[1].content)
        /\ p[2].content.present

----------------------------------------------------------------------------
(* Sessions and credentials *)

\* the request names a registered session
NamesSession(r, reg) ==
    r.path = "/mcp" /\ r.sid.present /\ r.sid.value \in DOMAIN reg

\* the request carries a usable credential other than the one of the
\* session it was routed to
OtherCredential(r) ==
    /\ r.branch = "continue" /\ r.transport # 0
    /\ extractBearerToken(r.auth) # Null
    /\ extractBearerToken(r.auth) # transports[r.transport].apiKey

(* C23: the client handle of a session is fixed when the session is created:
   no step changes the credential or the server of a channel.  A request
   that names a registered session is routed to the channel of that session
   and runs with its handle, whatever payload and credential it carries
   (an initialize payload with another bearer credential included): it
   makes no channel, mints no identifier and adds no registry entry. *)
C23_HandleFixedAtCreation ==
    [][ /\ \A t \in Transports :
              /\ t \in 1..Len(transports')
              /\ transports'[t].apiKey = transports[t].apiKey
              /\ transports'[t].server = transports[t].server
        /\ (RequestStep /\ NamesSession(last', sessions)) =>
              /\ last'.branch = "continue"
              /\ last'.transport = sessions[last'.sid.value]
              /\ last'.handle = transports[last'.transport].server
              /\ Len(transports') = Len(transports)
              /\ minted' = minted
              /\ DOMAIN sessions' \subseteq DOMAIN sessions ]_vars

\* an initialize request with the identifier of a registered session and
\* the credential of another client has been routed to that session
C23_Witness ==
    /\ OtherCredential(last)
    /\ last.method = "POST"
    /\ last.body = "initialize"
    /\ Registered(last.transport)
    /\ last.handle = transports[last.transport].apiKey

\* what the handler does with a request of the continuation branch, from
\* the registry, the identifier, the method, the payload and the upstream
\* answer alone
Decision(reg, trs, r) ==
    LET found == lookup(reg, r.sid.value) IN
    IF found.kind = "transport"
    THEN [ transport |-> found.t,
           handle    |-> trs[found.t].server,
           response  |-> IF isToolCall(r.method, r.body)
                         THEN toolResponse(sendEmail(r.upstream))
                         ELSE NoResponse,
           registry  |-> IF r.method = "DELETE" THEN closed(reg, trs[found.t])
                         ELSE reg ]
    ELSE [ transport |-> 0, handle |-> Null, response |-> InternalError,
           registry  |-> reg ]

(* C28: routing of a continuation depends on the session identifier only.
   For a request that is routed by its mcp-session-id, the channel it goes
   to, the client handle it runs with, the response and the effect on the
   registry are those fixed by the registry, the identifier, the method and
   the payload: they are the same with no Authorization header, with the
   credential of the session and with any other credential, and such a
   request is never answered 401. *)
C28_RoutingIgnoresCredential ==
    [][ (RequestStep /\ last'.branch = "continue") =>
            LET d == Decision(sessions, transports, last') IN
            /\ last'.transport = d.transport
            /\ last'.handle = d.handle
            /\ last'.response = d.response
            /\ last'.response.status # 401
            /\ sessions' = d.registry
            /\ Len(transports') = Len(transports) ]_vars

\* a tool has run in a session on a request that carried the credential of
\* another client, with the handle of the session
C28_Witness ==
    /\ OtherCredential(last)
    /\ isToolCall(last.method, last.body)
    /\ last.response.status = 200
    /\ last.handle = transports[last.transport].apiKey
    /\ last.handle # extractBearerToken(last.auth)

\* the channel reports closure in this step
Closes(t) == transports[t].pc # "closed" /\ transports'[t].pc = "closed"

\* every registry key leads to the channel that has that identifier
C27_KeyIsOwnIdentifier ==
    \A sid \in DOMAIN sessions : transports[sessions[sid]].sessionId = sid

\* a closing channel takes at most its own entry out of the registry
C27_CloseRemovesOwnEntry ==
    \A t \in Transports :
        Closes(t) =>
            /\ \A sid \in DOMAIN sessions :
                  sid # transports[t].sessionId =>
                      /\ sid \in DOMAIN sessions'
                      /\ sessions'[sid] = sessions[sid]
            /\ DOMAIN sessions' = DOMAIN sessions \ {transports[t].sessionId}
            /\ transports[t].sessionId = "" => sessions' = sessions

(* C27: the close callback of a channel removes the session of that channel
   and no other.  In every state each registry key leads to the channel
   whose own session identifier is the key; when a channel reports closure
   the registry loses the entry under the identifier of that channel, if
   there is one, and every other entry stays as it was; a channel that
   closes before the handshake gave it an identifier changes nothing. *)
C27_CloseCallback ==
    []C27_KeyIsOwnIdentifier /\ [][C27_CloseRemovesOwnEntry]_vars

\* a channel with an identifier has closed and is out of the registry while
\* the session of another channel is still registered
C27_Witness ==
    \E t \in Transports :
        /\ transports[t].pc = "closed"
        /\ transports[t].sessionId # ""
        /\ transports[t].sessionId \notin DOMAIN sessions
        /\ \E u \in Transports :
              /\ u # t
              /\ Registered(u)
              /\ transports[u].sessionId \in DOMAIN sessions

\* a channel has closed before the handshake gave it an identifier
ClosedBeforeHandshake ==
    \E t \in Transports :
        transports[t].pc = "closed" /\ transports[t].sessionId = ""

\* the text of the header after its first seven characters
AfterPrefix(authorization) == SubSeq(authorization.value, 8, Len(authorization.value))

(* C26: extractBearerToken returns null exactly when the Authorization
   header is absent, does not start with "Bearer ", or has only blanks after
   that prefix; otherwise it returns the text after the prefix without the
   blanks around it.  The credential it returns is never empty and has no
   blank at either end; a request it returns null for is answered 401. *)
C26_ExtractBearerToken ==
    last.branch = "create" =>
        LET apiKey == last.handle IN
        /\ (apiKey = Null) <=> Malformed(last.auth)
        /\ (apiKey = Null) <=> (last.response.status = 401)
        /\ ~Malformed(last.auth) =>
              /\ IsTrimOf(apiKey, AfterPrefix(last.auth))
              /\ Len(apiKey) > 0
              /\ apiKey[1] # " "
              /\ apiKey[Len(apiKey)] # " "

\* a header with blanks around the token has given the token alone
C26_Witness ==
    /\ last.branch = "create"
    /\ last.auth = Header(BearerPrefix \o <<" ", "a", " ">>)
    /\ last.handle = <<"a">>

(* C25: registering a session under an identifier that is already in the
   registry fails: no step replaces the channel an identifier leads to, so
   an identifier that is registered before and after a step leads to the
   same channel. *)
C25_InsertKeepsExisting ==
    [][ \A sid \in DOMAIN sessions :
            sid \in DOMAIN sessions' => sessions'[sid] = sessions[sid] ]_vars

(* C24: one session cannot block shutdown: once shutdown() has started to
   close the sessions, process exit is eventually invoked, whatever the
   close of a session does (it may throw, and it may never complete). *)
C24_ShutdownNotBlocked ==
    (Len(shut) > 0) ~> (proc = "exit0")

=============================================================================
